---- MODULE Spec2Model ----
(***************************************************************************)
(* Model of system-monitor-with-alert.py: the MonitoringSystem start-up    *)
(* pipeline (start_all_services and its three stages), the final           *)
(* verification pass, the telemetry calls of main, the reporting loop and  *)
(* stop_services.  The program is single-threaded: pc is the position of   *)
(* main's only thread of control.  Every blocking call (sc, Popen, HTTP    *)
(* request, sleep) is one step whose outcome the environment chooses; the  *)
(* outcome "interrupt" is a KeyboardInterrupt delivered during that call.  *)
(* log_message's file write is guarded by a bare except (lines 71-75) and   *)
(* its print is total for the ASCII messages; the two messages of          *)
(* verify_services that start with a check mark or a cross (lines 244,     *)
(* 246) make print raise UnicodeEncodeError when the encoding of stdout    *)
(* cannot encode them, which is the one Exception that reaches main.       *)
(***************************************************************************)
EXTENDS Naturals, FiniteSets, Sequences, TLC

VARIABLES
    pc,                   \* position of main's thread of control
    exists,               \* os.path.exists of the two executables (environment)
    stdout,               \* encoding of sys.stdout (environment)
    alertmanager_process, \* self.alertmanager_process: "None" or "Popen"
    prometheus_process,   \* self.prometheus_process: "None" or "Popen"
    i,                    \* loop variable of the readiness poll in progress
    all_ok,               \* verify_services' all_ok
    ret,                  \* return value of each start_* function, once returned
    sc_query,             \* what the sc query issued reported, "none" before it
    sc_start,             \* what the sc start issued answered, "none" if not issued
    service_queries,      \* sc query commands issued
    start_commands,       \* sc start commands issued
    init_probe,           \* result of each stage's "already running" probe
    exe_checks,           \* os.path.exists calls per process
    launches,             \* successful Popen calls per process
    sleeps,               \* time.sleep(2) calls completed per process
    poll_probes,          \* probes issued inside each poll loop
    first_up,             \* index of the first poll probe answered with 200
    verify_probe,         \* result of each probe of verify_services
    last_probe,           \* outcome and result of the last check_url_accessible call
    requests,             \* requests.get calls made by check_url_accessible
    queried,              \* metric queries get_system_metrics has attempted
    printed,              \* metric entries get_system_metrics has printed
    unavailable,          \* those of them that read "Unable to fetch"
    alerts,               \* outcome of the last check_alerts call
    alert_calls,          \* check_alerts calls made
    alert_source,         \* root URL of the last alert fetch
    dashboard,            \* outcome of open_dashboards
    cycle,                \* completed time.sleep(30) of the reporting loop
    interrupt,            \* the step a KeyboardInterrupt propagated from
    exception,            \* the step an Exception propagated to main from
    absorbed,             \* whether a bare except has swallowed a KeyboardInterrupt
    stop_calls,           \* executions of stop_services
    stop_cmds             \* commands stop_services issued

vars == << pc, exists, stdout, alertmanager_process, prometheus_process, i, all_ok,
           ret, sc_query, sc_start, service_queries, start_commands, init_probe,
           exe_checks, launches, sleeps, poll_probes, first_up, verify_probe,
           last_probe, requests, queried, printed, unavailable, alerts, alert_calls,
           alert_source, dashboard, cycle, interrupt, exception, absorbed,
           stop_calls, stop_cmds >>

\* Reporting cycles explored before only an interrupt can end the loop.
MaxCycles == 2

Procs == {"alertmanager", "prometheus"}

Stages == {"start_windows_exporter", "start_alertmanager", "start_prometheus",
           "verify_services", "start_all_services"}

\* verify_services' dict, in insertion order (lines 235-239).
services == << "Windows Exporter", "Prometheus", "Alertmanager" >>

\* get_system_metrics' dict, in insertion order (lines 255-259).
queries == << "CPU Usage", "Memory Usage", "Disk Usage" >>

Range(s) == {s[n] : n \in 1..Len(s)}

\* Outcomes of the environment for each kind of blocking call.
ScQueryOutcomes == {"RUNNING", "STOPPED", "error", "interrupt"}
ScStartOutcomes == {"START_PENDING", "RUNNING", "FAILED", "error", "interrupt"}
HttpOutcomes    == {"200", "503", "timeout", "interrupt"}
PopenOutcomes   == {"ok", "OSError", "interrupt"}
SleepOutcomes   == {"ok", "interrupt"}
QueryOutcomes   == {"value", "empty", "status_error", "malformed", "timeout",
                    "interrupt"}
AlertOutcomes   == {"alerts", "malformed", "503", "timeout", "interrupt"}
BrowserOutcomes == {"ok", "error", "interrupt"}

\* Encodings of stdout: one that can encode the marks of lines 244 and 246
\* and one that cannot.
Encodings == {"utf-8", "cp1252"}

\* Service URLs (lines 26-27).
prometheus_url == "http://localhost:9090"
alertmanager_url == "http://localhost:9093"

alertmanager_max_retries == 10
prometheus_max_retries == 15

max_retries(p) ==
    IF p = "alertmanager" THEN alertmanager_max_retries ELSE prometheus_max_retries


Loc(p, step) == p \o "_" \o step

StageOf(p) == "start_" \o p

TypeOK ==
    /\ pc \in {"main", "exporter_query", "exporter_start", "exporter_sleep",
               "verify_services", "get_system_metrics", "check_alerts",
               "open_dashboards", "sleep", "KeyboardInterrupt", "Exception",
               "exit"}
              \cup {Loc(p, s) : p \in Procs,
                                s \in {"probe", "exists", "Popen", "sleep", "poll"}}
    /\ exists \in [Procs -> BOOLEAN]
    /\ stdout \in Encodings
    /\ alertmanager_process \in {"None", "Popen"}
    /\ prometheus_process \in {"None", "Popen"}
    /\ i \in 0..prometheus_max_retries
    /\ all_ok \in BOOLEAN
    /\ ret \in [Stages -> {"none", "True", "False"}]
    /\ sc_query \in {"none", "RUNNING", "not RUNNING", "interrupt"}
    /\ sc_start \in {"none", "accepted", "refused", "interrupt"}
    /\ service_queries \in 0..1
    /\ start_commands \in 0..1
    /\ init_probe \in [Procs -> {"none", "True", "False"}]
    /\ exe_checks \in [Procs -> 0..1]
    /\ launches \in [Procs -> 0..1]
    /\ sleeps \in [Procs -> 0..prometheus_max_retries]
    /\ poll_probes \in [Procs -> 0..prometheus_max_retries]
    /\ first_up \in [Procs -> 0..prometheus_max_retries]
    /\ verify_probe \in [Range(services) -> {"none", "True", "False"}]
    /\ last_probe \in [o : {"none"} \cup HttpOutcomes, r : {"none", "True", "False"}]
    /\ requests \in 0..(2 + alertmanager_max_retries + prometheus_max_retries
                           + Len(services))
    /\ queried \in 0..Len(queries)
    /\ printed \in 0..queried
    /\ unavailable \in 0..printed
    /\ alerts \in {"none", "shown", "Failed to fetch alerts", "Error checking alerts"}
    /\ alert_calls \in 0..(MaxCycles + 1)
    /\ alert_source \in {"none", prometheus_url, alertmanager_url}
    /\ dashboard \in {"none", "opened", "failed"}
    /\ cycle \in 0..MaxCycles
    /\ interrupt \in {"none", "exporter_query", "exporter_start", "exporter_sleep",
                      "check_alerts", "open_dashboards", "sleep"}
                     \cup {Loc(p, s) : p \in Procs, s \in {"Popen", "sleep"}}
    /\ exception \in {"none", "verify_services"}
    /\ absorbed \in BOOLEAN
    /\ stop_calls \in 0..1
    /\ stop_cmds \subseteq {"terminate prometheus", "terminate alertmanager",
                            "sc stop windows_exporter", "wait prometheus",
                            "wait alertmanager"}

Init ==
    /\ pc = "main"
    /\ exists \in [Procs -> BOOLEAN]
    /\ stdout \in Encodings
    /\ alertmanager_process = "None"
    /\ prometheus_process = "None"
    /\ i = 0
    /\ all_ok = TRUE
    /\ ret = [s \in Stages |-> "none"]
    /\ sc_query = "none"
    /\ sc_start = "none"
    /\ service_queries = 0
    /\ start_commands = 0
    /\ init_probe = [p \in Procs |-> "none"]
    /\ exe_checks = [p \in Procs |-> 0]
    /\ launches = [p \in Procs |-> 0]
    /\ sleeps = [p \in Procs |-> 0]
    /\ poll_probes = [p \in Procs |-> 0]
    /\ first_up = [p \in Procs |-> 0]
    /\ verify_probe = [s \in Range(services) |-> "none"]
    /\ last_probe = [o |-> "none", r |-> "none"]
    /\ requests = 0
    /\ queried = 0
    /\ printed = 0
    /\ unavailable = 0
    /\ alerts = "none"
    /\ alert_calls = 0
    /\ alert_source = "none"
    /\ dashboard = "none"
    /\ cycle = 0
    /\ interrupt = "none"
    /\ exception = "none"
    /\ absorbed = FALSE
    /\ stop_calls = 0
    /\ stop_cmds = {}

(***************************************************************************)
(* Pure parts of the code: what a call returns for each outcome.           *)
(***************************************************************************)

\* check_service_running: 'RUNNING' in stdout; except Exception -> False.
\* A KeyboardInterrupt is no Exception and leaves the function.
check_service_running_stderr(o) ==
    IF o = "interrupt" THEN "KeyboardInterrupt" ELSE "False"

check_service_running(o) ==
    CASE o = "RUNNING"   -> "True"
      [] o = "interrupt" -> "KeyboardInterrupt"
      [] OTHER           -> "False"

\* check_url_accessible: status_code == 200; the bare except turns every
\* exception, KeyboardInterrupt included, into False.
check_url_accessible_except_Exception(o) ==
    CASE o = "200"       -> "True"
      [] o = "interrupt" -> "KeyboardInterrupt"
      [] OTHER           -> "False"

check_url_accessible_any_response(o) ==
    IF o \in {"200", "503"} THEN "True" ELSE "False"

check_url_accessible(o) ==
    IF o = "200" THEN "True" ELSE "False"

\* The body of the readiness loop after the probe (lines 172-180): return
\* True on a reachable probe, go round again while range(max_retries) lasts,
\* return False when it is exhausted.  n is the value of the loop variable.
poll_step_skip_first(r, n, max) ==
    IF r = "True" /\ n > 0 THEN "return True"
    ELSE IF n + 1 < max THEN "continue"
    ELSE "return False"

poll_step_one_more(r, n, max) ==
    IF r = "True" THEN "return True"
    ELSE IF n + 1 <= max THEN "continue"
    ELSE "return False"

poll_step(r, n, max) ==
    IF r = "True" THEN "return True"
    ELSE IF n + 1 < max THEN "continue"
    ELSE "return False"

\* verify_services' accumulation of all_ok (lines 241-247).
verify_accumulate_last(ok, r) == r = "True"

verify_accumulate(ok, r) == ok /\ r = "True"

\* start_all_services' sequencing (lines 324-339) and main's test of its
\* result (line 362): where control goes once a stage has returned r, and
\* what start_all_services has returned by then.
start_all_services_skip(stage, r) ==
    CASE stage = "start_windows_exporter" ->
            IF r = "True" THEN [pc |-> "alertmanager_probe", ret |-> "none"]
                          ELSE [pc |-> "exit", ret |-> "False"]
      [] stage = "start_alertmanager" ->
            [pc |-> "prometheus_probe", ret |-> "none"]
      [] stage = "start_prometheus" ->
            IF r = "True" THEN [pc |-> "verify_services", ret |-> "none"]
                          ELSE [pc |-> "exit", ret |-> "False"]
      [] OTHER ->
            IF r = "True" THEN [pc |-> "get_system_metrics", ret |-> "True"]
                          ELSE [pc |-> "exit", ret |-> "False"]

start_all_services(stage, r) ==
    CASE stage = "start_windows_exporter" ->
            IF r = "True" THEN [pc |-> "alertmanager_probe", ret |-> "none"]
                          ELSE [pc |-> "exit", ret |-> "False"]
      [] stage = "start_alertmanager" ->
            IF r = "True" THEN [pc |-> "prometheus_probe", ret |-> "none"]
                          ELSE [pc |-> "exit", ret |-> "False"]
      [] stage = "start_prometheus" ->
            IF r = "True" THEN [pc |-> "verify_services", ret |-> "none"]
                          ELSE [pc |-> "exit", ret |-> "False"]
      [] OTHER ->
            IF r = "True" THEN [pc |-> "get_system_metrics", ret |-> "True"]
                          ELSE [pc |-> "exit", ret |-> "False"]

\* stop_services (lines 345-351): terminate() on each handle that is set.
stop_services_prometheus_only(pp, ap) ==
    IF pp # "None" THEN {"terminate prometheus"} ELSE {}

stop_services(pp, ap) ==
    (IF pp # "None" THEN {"terminate prometheus"} ELSE {})
    \cup (IF ap # "None" THEN {"terminate alertmanager"} ELSE {})

(***************************************************************************)
(* Steps shared by the actions.                                            *)
(***************************************************************************)

\* A stage function returns r to start_all_services.
Return(stage, r) ==
    LET n == start_all_services(stage, r) IN
    /\ pc' = n.pc
    /\ ret' = [ret EXCEPT ![stage] = r, !["start_all_services"] = n.ret]
    /\ UNCHANGED << interrupt, exception >>

\* A KeyboardInterrupt leaves every frame up to main's handler (line 380).
Raise ==
    /\ pc' = "KeyboardInterrupt"
    /\ interrupt' = pc
    /\ UNCHANGED << ret, exception >>

\* An Exception leaves every frame up to main's handler (line 383).
RaiseException ==
    /\ pc' = "Exception"
    /\ exception' = pc
    /\ UNCHANGED << ret, interrupt >>

\* A bare except swallowed a KeyboardInterrupt delivered during this step.
Absorb(o, r) ==
    absorbed' = (absorbed \/ (o = "interrupt" /\ r # "KeyboardInterrupt"))

\* Control moves on inside the function in progress.
Goto(l) ==
    /\ pc' = l
    /\ UNCHANGED << ret, interrupt, exception >>

envVars == << exists, stdout >>
procVars == << alertmanager_process, prometheus_process >>
exporterVars == << sc_query, sc_start, service_queries, start_commands >>
probeVars == << last_probe, requests >>
stageVars == << init_probe, exe_checks, launches, sleeps, poll_probes, first_up, i >>
verifyVars == << verify_probe, all_ok >>
telemetryVars == << queried, printed, unavailable, alerts, alert_calls, alert_source,
                   dashboard, cycle >>
stopVars == << stop_calls, stop_cmds >>

\* The first entry of a dict (as a sequence) not yet visited by its loop.
NextIndex(seq, done) ==
    CHOOSE n \in 1..Len(seq) :
        /\ done[seq[n]] = "none"
        /\ \A m \in 1..(n - 1) : done[seq[m]] # "none"

(***************************************************************************)
(* main, up to the call of start_all_services (lines 354-362, 321).        *)
(***************************************************************************)
main_start ==
    /\ pc = "main"
    /\ Goto("exporter_query")
    /\ UNCHANGED << envVars, procVars, exporterVars, stageVars, probeVars, verifyVars,
                    telemetryVars, stopVars, absorbed >>

(***************************************************************************)
(* start_windows_exporter (lines 104-131).                                 *)
(***************************************************************************)
\* Line 121: the start command's answer is taken as an acceptance.
sc_start_accepted_always(o) == TRUE

sc_start_accepted(o) == o \in {"START_PENDING", "RUNNING"}

start_windows_exporter_query ==
    /\ pc = "exporter_query"
    /\ \E o \in ScQueryOutcomes :
        LET r == check_service_running(o) IN
        /\ sc_query' = IF o \in {"RUNNING", "interrupt"} THEN o ELSE "not RUNNING"
        /\ service_queries' = service_queries + 1
        /\ CASE r = "True"  -> Return("start_windows_exporter", "True")
             [] r = "False" -> Goto("exporter_start")
             [] OTHER       -> Raise
    /\ UNCHANGED << envVars, procVars, sc_start, start_commands, stageVars, probeVars,
                    verifyVars, telemetryVars, stopVars, absorbed >>

start_windows_exporter_start ==
    /\ pc = "exporter_start"
    /\ \E o \in ScStartOutcomes :
        /\ sc_start' = IF o = "interrupt" THEN o
                       ELSE IF o \in {"START_PENDING", "RUNNING"} THEN "accepted"
                       ELSE "refused"
        /\ start_commands' = start_commands + 1
        /\ CASE o = "interrupt"      -> Raise
             [] sc_start_accepted(o) -> Goto("exporter_sleep")
             [] OTHER                -> Return("start_windows_exporter", "False")
    /\ UNCHANGED << envVars, procVars, sc_query, service_queries, stageVars, probeVars,
                    verifyVars, telemetryVars, stopVars, absorbed >>

start_windows_exporter_sleep ==
    /\ pc = "exporter_sleep"
    /\ \E o \in SleepOutcomes :
        IF o = "interrupt" THEN Raise
        ELSE Return("start_windows_exporter", "True")
    /\ UNCHANGED << envVars, procVars, exporterVars, stageVars, probeVars, verifyVars,
                    telemetryVars, stopVars, absorbed >>

(***************************************************************************)
(* start_alertmanager (lines 141-184) and start_prometheus (lines 186-229) *)
(* are the same code but for the process, its URL and max_retries.         *)
(***************************************************************************)
\* requests.get calls made by one check_url_accessible call (line 136).
requests_per_probe_retry(o) == IF o = "timeout" THEN 2 ELSE 1

requests_per_probe(o) == 1

\* One call of check_url_accessible with outcome o and result r.
ProbeCall(o, r) ==
    /\ last_probe' = [o |-> o, r |-> r]
    /\ requests' = requests + requests_per_probe(o)

\* "Check if already running" (lines 146-148, 191-193).
Probe(p) ==
    /\ pc = Loc(p, "probe")
    /\ \E o \in HttpOutcomes :
        LET r == check_url_accessible(o) IN
        /\ Absorb(o, r)
        /\ ProbeCall(o, r)
        /\ init_probe' = IF r = "KeyboardInterrupt" THEN init_probe
                         ELSE [init_probe EXCEPT ![p] = r]
        /\ CASE r = "True"  -> Return(StageOf(p), "True")
             [] r = "False" -> Goto(Loc(p, "exists"))
             [] OTHER       -> Raise
    /\ UNCHANGED << envVars, procVars, exporterVars, exe_checks, launches, sleeps,
                    poll_probes, first_up, i, verifyVars, telemetryVars, stopVars >>

\* The test of os.path.exists (lines 151, 196).
executable_gate_unchecked(ex) == "Popen"

executable_gate(ex) == IF ex THEN "Popen" ELSE "return False"

\* "Check if executable exists" (lines 151-153, 196-198).
Exists(p) ==
    /\ pc = Loc(p, "exists")
    /\ exe_checks' = [exe_checks EXCEPT ![p] = @ + 1]
    /\ IF executable_gate(exists[p]) = "Popen" THEN Goto(Loc(p, "Popen"))
       ELSE Return(StageOf(p), "False")
    /\ UNCHANGED << envVars, procVars, exporterVars, init_probe, launches, sleeps,
                    poll_probes, first_up, i, probeVars, verifyVars, telemetryVars,
                    stopVars, absorbed >>

\* subprocess.Popen and the assignment of the handle (lines 162-168, 207-213);
\* an OSError (always one for a missing file) is caught at lines 182-184,
\* 227-229.
Popen(p) ==
    /\ pc = Loc(p, "Popen")
    /\ \E o \in PopenOutcomes :
        CASE o = "ok" /\ exists[p] ->
                /\ alertmanager_process' =
                       IF p = "alertmanager" THEN "Popen" ELSE alertmanager_process
                /\ prometheus_process' =
                       IF p = "prometheus" THEN "Popen" ELSE prometheus_process
                /\ launches' = [launches EXCEPT ![p] = @ + 1]
                /\ i' = 0
                /\ Goto(Loc(p, "sleep"))
          [] o = "interrupt" ->
                /\ Raise
                /\ UNCHANGED << procVars, launches, i >>
          [] OTHER ->
                /\ Return(StageOf(p), "False")
                /\ UNCHANGED << procVars, launches, i >>
    /\ UNCHANGED << envVars, exporterVars, init_probe, exe_checks, sleeps,
                    poll_probes, first_up, probeVars, verifyVars, telemetryVars,
                    stopVars, absorbed >>

\* time.sleep(2) at the head of the loop body (lines 173, 218).
Sleep(p) ==
    /\ pc = Loc(p, "sleep")
    /\ \E o \in SleepOutcomes :
        IF o = "interrupt" THEN Raise /\ UNCHANGED sleeps
        ELSE /\ sleeps' = [sleeps EXCEPT ![p] = @ + 1]
             /\ Goto(Loc(p, "poll"))
    /\ UNCHANGED << envVars, procVars, exporterVars, init_probe, exe_checks,
                    launches, poll_probes, first_up, i, probeVars, verifyVars,
                    telemetryVars, stopVars, absorbed >>

\* The probe of the loop body and what follows it (lines 174-180, 219-225).
Poll(p) ==
    /\ pc = Loc(p, "poll")
    /\ \E o \in HttpOutcomes :
        LET r == check_url_accessible(o)
            d == poll_step(r, i, max_retries(p))
        IN
        /\ Absorb(o, r)
        /\ ProbeCall(o, r)
        /\ poll_probes' = [poll_probes EXCEPT ![p] = @ + 1]
        /\ first_up' = IF o = "200" /\ first_up[p] = 0
                       THEN [first_up EXCEPT ![p] = poll_probes[p] + 1]
                       ELSE first_up
        /\ CASE r = "KeyboardInterrupt" -> Raise /\ UNCHANGED i
             [] d = "return True"  -> Return(StageOf(p), "True") /\ UNCHANGED i
             [] d = "continue"     -> Goto(Loc(p, "sleep")) /\ i' = i + 1
             [] OTHER              -> Return(StageOf(p), "False") /\ UNCHANGED i
    /\ UNCHANGED << envVars, procVars, exporterVars, init_probe, exe_checks,
                    launches, sleeps, verifyVars, telemetryVars, stopVars >>

start_alertmanager_probe  == Probe("alertmanager")
start_alertmanager_exists == Exists("alertmanager")
start_alertmanager_Popen  == Popen("alertmanager")
start_alertmanager_sleep  == Sleep("alertmanager")
start_alertmanager_poll   == Poll("alertmanager")

start_prometheus_probe  == Probe("prometheus")
start_prometheus_exists == Exists("prometheus")
start_prometheus_Popen  == Popen("prometheus")
start_prometheus_sleep  == Sleep("prometheus")
start_prometheus_poll   == Poll("prometheus")

(***************************************************************************)
(* verify_services (lines 231-249): one probe per step, in dict order; the *)
(* third probe is followed by the return and by start_all_services' own.   *)
(***************************************************************************)
\* print_status (line 88) on the message of line 244 or 246, which starts
\* with a check mark or a cross: print raises when stdout cannot encode it.
print_status(enc) == IF enc = "utf-8" THEN "ok" ELSE "UnicodeEncodeError"

verify_services ==
    /\ pc = "verify_services"
    /\ \E o \in HttpOutcomes :
        LET n  == NextIndex(services, verify_probe)
            r  == check_url_accessible(o)
            ok == verify_accumulate(all_ok, r)
        IN
        /\ Absorb(o, r)
        /\ ProbeCall(o, r)
        /\ CASE r = "KeyboardInterrupt" ->
                  Raise /\ UNCHANGED verifyVars
             [] r # "KeyboardInterrupt" /\ print_status(stdout) # "ok" ->
                  /\ verify_probe' = [verify_probe EXCEPT ![services[n]] = r]
                  /\ RaiseException
                  /\ UNCHANGED all_ok
             [] OTHER ->
                  /\ verify_probe' = [verify_probe EXCEPT ![services[n]] = r]
                  /\ all_ok' = ok
                  /\ IF n = Len(services)
                     THEN Return("verify_services", IF ok THEN "True" ELSE "False")
                     ELSE Goto("verify_services")
    /\ UNCHANGED << envVars, procVars, exporterVars, stageVars, telemetryVars,
                    stopVars >>

(***************************************************************************)
(* get_system_metrics (lines 251-279): one query per step, in dict order.  *)
(***************************************************************************)
\* Lines 272-277: a value is printed for a success with a result, "Unable
\* to fetch" when anything raised (bare except), and nothing otherwise.
metric_entry(o) ==
    CASE o = "value"                     -> "value"
      [] o \in {"empty", "status_error"} -> "nothing"
      [] OTHER                           -> "Unable to fetch"

\* The for loop of lines 265-277: where control goes after the n-th query,
\* whatever its entry.
metric_next_abort(n, entry) ==
    IF n = Len(queries) \/ entry = "Unable to fetch"
    THEN "check_alerts" ELSE "get_system_metrics"

metric_next(n, entry) ==
    IF n = Len(queries) THEN "check_alerts" ELSE "get_system_metrics"

get_system_metrics ==
    /\ pc = "get_system_metrics"
    /\ \E o \in QueryOutcomes :
        LET n == queried + 1 IN
        /\ Absorb(o, metric_entry(o))
        /\ queried' = n
        /\ printed' = IF metric_entry(o) = "nothing" THEN printed ELSE printed + 1
        /\ unavailable' = IF metric_entry(o) = "Unable to fetch"
                          THEN unavailable + 1 ELSE unavailable
        /\ Goto(metric_next(n, metric_entry(o)))
    /\ UNCHANGED << envVars, procVars, exporterVars, stageVars, probeVars, verifyVars,
                    alerts, alert_calls, alert_source, dashboard, cycle, stopVars >>

(***************************************************************************)
(* check_alerts (lines 281-305), called at line 367 and at line 378.       *)
(***************************************************************************)
\* The root of the URL requested at line 284.
check_alerts_url_router == alertmanager_url

check_alerts_url == prometheus_url

\* Lines 285-305: the list is shown for a 200 with the expected JSON, the
\* status is reported otherwise, and an Exception is reported by the handler.
alert_entry(o) ==
    CASE o = "alerts" -> "shown"
      [] o = "503"    -> "Failed to fetch alerts"
      [] OTHER        -> "Error checking alerts"

check_alerts ==
    /\ pc = "check_alerts"
    /\ \E o \in AlertOutcomes :
        /\ alert_calls' = alert_calls + 1
        /\ alert_source' = check_alerts_url
        /\ IF o = "interrupt"
           THEN Raise /\ UNCHANGED alerts
           ELSE /\ alerts' = alert_entry(o)
                /\ Goto(IF dashboard = "none" THEN "open_dashboards" ELSE "sleep")
    /\ UNCHANGED << envVars, procVars, exporterVars, stageVars, probeVars, verifyVars,
                    queried, printed, unavailable, dashboard, cycle, stopVars,
                    absorbed >>

(***************************************************************************)
(* open_dashboards (lines 307-317).                                        *)
(***************************************************************************)
open_dashboards ==
    /\ pc = "open_dashboards"
    /\ \E o \in BrowserOutcomes :
        IF o = "interrupt"
        THEN Raise /\ UNCHANGED dashboard
        ELSE /\ dashboard' = IF o = "ok" THEN "opened" ELSE "failed"
             /\ Goto("sleep")
    /\ UNCHANGED << envVars, procVars, exporterVars, stageVars, probeVars, verifyVars,
                    queried, printed, unavailable, alerts, alert_calls, alert_source,
                    cycle, stopVars, absorbed >>

(***************************************************************************)
(* main's reporting loop (lines 376-378): time.sleep(30), then             *)
(* check_alerts.                                                           *)
(***************************************************************************)
\* What the loop body calls after the sleep (line 378).
reporting_cycle_idle == "sleep"

reporting_cycle == "check_alerts"

main_sleep ==
    /\ pc = "sleep"
    /\ \E o \in SleepOutcomes :
        IF o = "interrupt"
        THEN Raise /\ UNCHANGED cycle
        ELSE /\ cycle < MaxCycles
             /\ cycle' = cycle + 1
             /\ Goto(reporting_cycle)
    /\ UNCHANGED << envVars, procVars, exporterVars, stageVars, probeVars, verifyVars,
                    queried, printed, unavailable, alerts, alert_calls, alert_source,
                    dashboard, stopVars, absorbed >>

(***************************************************************************)
(* main's handler of KeyboardInterrupt (lines 380-382): stop_services,     *)
(* which leaves both handles as they are, and the end of the program.      *)
(***************************************************************************)
main_KeyboardInterrupt ==
    /\ pc = "KeyboardInterrupt"
    /\ stop_calls' = stop_calls + 1
    /\ stop_cmds' = stop_cmds \cup stop_services(prometheus_process, alertmanager_process)
    /\ Goto("exit")
    /\ UNCHANGED << envVars, procVars, exporterVars, stageVars, probeVars, verifyVars,
                    telemetryVars, absorbed >>

(***************************************************************************)
(* main's handler of Exception (lines 383-385): the error is logged (an    *)
(* ASCII message), then stop_services, and the end of the program.         *)
(***************************************************************************)
\* What the handler calls after logging (line 385).
main_handler_log_only(pp, ap) == [calls |-> 0, cmds |-> {}]

main_handler(pp, ap) == [calls |-> 1, cmds |-> stop_services(pp, ap)]

main_Exception ==
    /\ pc = "Exception"
    /\ LET h == main_handler(prometheus_process, alertmanager_process) IN
        /\ stop_calls' = stop_calls + h.calls
        /\ stop_cmds' = stop_cmds \cup h.cmds
    /\ Goto("exit")
    /\ UNCHANGED << envVars, procVars, exporterVars, stageVars, probeVars, verifyVars,
                    telemetryVars, absorbed >>

Next ==
    \/ main_start
    \/ start_windows_exporter_query
    \/ start_windows_exporter_start
    \/ start_windows_exporter_sleep
    \/ start_alertmanager_probe
    \/ start_alertmanager_exists
    \/ start_alertmanager_Popen
    \/ start_alertmanager_sleep
    \/ start_alertmanager_poll
    \/ start_prometheus_probe
    \/ start_prometheus_exists
    \/ start_prometheus_Popen
    \/ start_prometheus_sleep
    \/ start_prometheus_poll
    \/ verify_services
    \/ get_system_metrics
    \/ check_alerts
    \/ open_dashboards
    \/ main_sleep
    \/ main_KeyboardInterrupt
    \/ main_Exception

Spec == Init /\ [][Next]_vars

(***************************************************************************)
(* Properties.                                                             *)
(***************************************************************************)

\* No step of the stage of process p has been taken.
NoAction(p) ==
    /\ init_probe[p] = "none"
    /\ exe_checks[p] = 0
    /\ launches[p] = 0
    /\ sleeps[p] = 0
    /\ poll_probes[p] = 0

\* No probe of verify_services has been issued.
NoVerify == \A s \in Range(services) : verify_probe[s] = "none"

\* C1 - fail-fast: once a stage has returned False, no step of a later stage
\* (probe, executable check, launch, poll, verification probe) is ever taken
\* and start_all_services has returned False; after a failed alert-router
\* stage the metrics engine is never launched.
C1_FailFast ==
    /\ ret["start_windows_exporter"] = "False" =>
          /\ NoAction("alertmanager") /\ NoAction("prometheus") /\ NoVerify
          /\ ret["start_all_services"] = "False"
    /\ ret["start_alertmanager"] = "False" =>
          /\ NoAction("prometheus") /\ prometheus_process = "None" /\ NoVerify
          /\ ret["start_all_services"] = "False"
    /\ ret["start_prometheus"] = "False" =>
          /\ NoVerify
          /\ ret["start_all_services"] = "False"

\* The alert-router stage failed by exhausting its poll and the program ended.
C1_Witness ==
    /\ pc = "exit"
    /\ launches["alertmanager"] = 1
    /\ ret["start_alertmanager"] = "False"

\* C2 - readiness poll success: if the endpoint first answers reachable on
\* the k-th poll probe (1 <= k <= N, N = 10 for the alert router and 15 for
\* the metrics engine), the stage has returned True after exactly k sleeps
\* and k poll probes, and both counts stay k from then on.
C2_PollSuccess ==
    \A p \in Procs :
        first_up[p] # 0 =>
            /\ first_up[p] <= (IF p = "alertmanager" THEN 10 ELSE 15)
            /\ ret[StageOf(p)] = "True"
            /\ sleeps[p] = first_up[p]
            /\ poll_probes[p] = first_up[p]

\* Both polls succeeded on their last permitted probe.
C2_Witness ==
    /\ first_up["alertmanager"] = 10
    /\ first_up["prometheus"] = 15
    /\ ret["start_prometheus"] = "True"

\* C3 - readiness poll exhaustion: a stage that launched its process and
\* returned without any poll probe answered reachable has returned False
\* after exactly 10 (alert router) or 15 (metrics engine) poll probes, and no
\* probe is issued afterwards: the pipeline has ended without verification
\* and without any telemetry fetch.
C3_PollExhaustion ==
    \A p \in Procs :
        /\ poll_probes[p] <= (IF p = "alertmanager" THEN 10 ELSE 15)
        /\ (launches[p] = 1 /\ ret[StageOf(p)] # "none" /\ first_up[p] = 0) =>
              /\ ret[StageOf(p)] = "False"
              /\ poll_probes[p] = (IF p = "alertmanager" THEN 10 ELSE 15)
              /\ sleeps[p] = poll_probes[p]
              /\ ret["start_all_services"] = "False"
              /\ NoVerify
              /\ queried = 0 /\ alert_calls = 0
              /\ pc = "exit"

\* The metrics engine was launched and never answered.
C3_Witness ==
    /\ launches["prometheus"] = 1
    /\ first_up["prometheus"] = 0
    /\ ret["start_prometheus"] = "False"

\* The exporter service is reported Running and both endpoints answer the
\* stages' first probes.
AlreadyUp ==
    /\ sc_query = "RUNNING"
    /\ init_probe["alertmanager"] = "True"
    /\ init_probe["prometheus"] = "True"

C5_MissingExecutable ==
    ( /\ pc = "exit"
      /\ sc_query = "RUNNING"
      /\ ret["start_alertmanager"] = "True"
      /\ init_probe["prometheus"] = "False"
      /\ ~exists["prometheus"] ) =>
        /\ ret["start_prometheus"] = "False"
        /\ ret["start_all_services"] = "False"
        /\ launches["prometheus"] = 0
        /\ (alertmanager_process = "Popen" => "terminate alertmanager" \in stop_cmds)

\* C6 - lifecycle shutdown: once stop_services has run, the commands it
\* issued are exactly one terminate for each process launched in this run:
\* nothing for the exporter service, no wait, and nothing at all when no
\* process was launched.
C6_Shutdown ==
    stop_calls >= 1 =>
        stop_cmds = {"terminate " \o p : p \in {q \in Procs : launches[q] >= 1}}

\* stop_services ran with both processes launched.
C6_Witness ==
    /\ stop_calls = 1
    /\ launches["alertmanager"] = 1
    /\ launches["prometheus"] = 1
    /\ pc = "exit"

\* C7 - the claim as stated: after stop_services has terminated a process,
\* the handle of that process is absent.
C7_HandleCleared ==
    stop_calls >= 1 =>
        /\ ("terminate alertmanager" \in stop_cmds => alertmanager_process = "None")
        /\ ("terminate prometheus" \in stop_cmds => prometheus_process = "None")

\* C8 - final verification gate: start_all_services has returned True only
\* if the metrics-engine stage returned True and all three verification
\* probes succeeded; once the pass is complete with a failed probe, it has
\* returned False.
C8_VerificationGate ==
    /\ ret["start_all_services"] = "True" =>
          /\ ret["start_prometheus"] = "True"
          /\ \A s \in Range(services) : verify_probe[s] = "True"
    /\ ( /\ \A s \in Range(services) : verify_probe[s] # "none"
         /\ \E s \in Range(services) : verify_probe[s] = "False" ) =>
          /\ ret["verify_services"] = "False"
          /\ ret["start_all_services"] = "False"

\* All three stages succeeded, only the exporter's probe failed, and the
\* result is failure.
C8_Witness ==
    /\ ret["start_windows_exporter"] = "True"
    /\ ret["start_alertmanager"] = "True"
    /\ ret["start_prometheus"] = "True"
    /\ verify_probe["Windows Exporter"] = "False"
    /\ verify_probe["Prometheus"] = "True"
    /\ verify_probe["Alertmanager"] = "True"
    /\ ret["start_all_services"] = "False"

\* C9 - the claim as stated: start_windows_exporter has returned True only
\* after a service query reported the service Running.
C9_ExporterReadiness ==
    ret["start_windows_exporter"] = "True" => sc_query = "RUNNING"

\* The steps during which a KeyboardInterrupt reaches main's handler.
Interruptible ==
    {"exporter_query", "exporter_start", "exporter_sleep", "check_alerts",
     "open_dashboards", "sleep"}
    \cup {Loc(p, s) : p \in Procs, s \in {"Popen", "sleep"}}

\* C10 - the claim as stated: shutdown begins only on an interrupt that
\* arrived between reporting cycles (during time.sleep(30)).
C10_OnlyBetweenCycles ==
    interrupt \in {"none", "sleep"}

\* C10 as amended: an interrupt is never acted upon while a probe
\* (check_url_accessible) or a metric query is in progress; the shutdown
\* begins only from a service command, a launch, a sleep (of a poll or of
\* the reporting loop), the alert fetch or the opening of the dashboard, and
\* then the step in progress is abandoned.
C10_CancellationPoints ==
    /\ interrupt \in {"none"} \cup Interruptible
    /\ pc = "KeyboardInterrupt" => interrupt \in Interruptible
    /\ stop_calls >= 1 /\ exception = "none" => interrupt \in Interruptible

\* One interrupt was swallowed during a probe or metric query, and a later
\* one, arriving during the alert fetch, started the shutdown.
C10_Witness ==
    /\ absorbed
    /\ interrupt = "check_alerts"
    /\ stop_calls = 1

ReportingSteps == {"check_alerts", "open_dashboards", "sleep"}

\* C12 - telemetry isolation: all three metric queries have been attempted
\* by the time get_system_metrics returns, whatever their outcomes; a failed
\* alert fetch that was not an interrupt leaves the program in the reporting
\* loop; and check_alerts never changes the metric results.
C12_TelemetryIsolation ==
    /\ [](/\ pc \in ReportingSteps \/ alert_calls >= 1 => queried = Len(queries)
          /\ /\ alerts \in {"Failed to fetch alerts", "Error checking alerts"}
             /\ interrupt = "none"
             => pc \in ReportingSteps)
    /\ [][pc = "check_alerts" => UNCHANGED << queried, printed, unavailable >>]_vars

\* A metric query failed and the other two were made; the first alert fetch
\* failed and the next cycle's fetch is about to run.
C12_Witness ==
    /\ queried = Len(queries)
    /\ unavailable >= 1
    /\ printed > unavailable
    /\ alerts = "Error checking alerts"
    /\ cycle = 1
    /\ pc = "check_alerts"

\* C13 - top-level failure path: when an Exception has reached main and the
\* program has ended, stop_services has run once and has sent terminate to
\* every process launched so far; nothing else runs after the Exception.
C13_TopLevelFailure ==
    /\ exception # "none" => pc \in {"Exception", "exit"}
    /\ exception # "none" /\ pc = "exit" =>
        /\ stop_calls = 1
        /\ stop_cmds = {"terminate " \o p : p \in {q \in Procs : launches[q] >= 1}}

\* The verification's log line could not be printed after both processes
\* had been launched, and the program ended.
C13_Witness ==
    /\ exception = "verify_services"
    /\ pc = "exit"
    /\ launches["alertmanager"] = 1
    /\ launches["prometheus"] = 1
    /\ stop_cmds = {"terminate alertmanager", "terminate prometheus"}

\* The steps that call check_url_accessible.
ProbeSteps ==
    {Loc(p, st) : p \in Procs, st \in {"probe", "poll"}} \cup {"verify_services"}

\* The calls of check_url_accessible made so far.
ProbeCalls ==
    Cardinality({p \in Procs : init_probe[p] # "none"})
    + poll_probes["alertmanager"] + poll_probes["prometheus"]
    + Cardinality({sv \in Range(services) : verify_probe[sv] # "none"})

\* C14 - probe totality: every call of check_url_accessible returned True or
\* False, True exactly when the response had status 200; no interrupt or
\* error ever left a probe; and each call made exactly one request.
C14_ProbeTotality ==
    /\ last_probe.o # "none" =>
          /\ last_probe.r \in {"True", "False"}
          /\ last_probe.r = "True" <=> last_probe.o = "200"
    /\ interrupt \notin ProbeSteps
    /\ requests = ProbeCalls

\* Probes have answered 200, another status, a timeout and an interrupt in
\* turn (the last one during verification), each with a single request.
C14_Witness ==
    /\ init_probe["alertmanager"] = "False"
    /\ init_probe["prometheus"] = "True"
    /\ absorbed
    /\ last_probe = [o |-> "interrupt", r |-> "False"]
    /\ pc = "verify_services"
    /\ requests >= 4

\* C15 - launch gating: a process was launched only after its stage's first
\* probe failed and its executable was found; a reachable endpoint ends the
\* stage with success before any executable check or launch; a missing
\* executable ends it with failure before any launch, sleep or poll probe;
\* there is at most one launch per process and the handle is set exactly
\* when the launch was made.
C15_LaunchGating ==
    /\ \A p \in Procs :
        /\ launches[p] <= 1
        /\ launches[p] = 1 =>
              init_probe[p] = "False" /\ exists[p] /\ exe_checks[p] = 1
        /\ init_probe[p] = "True" =>
              /\ ret[StageOf(p)] = "True"
              /\ exe_checks[p] = 0 /\ launches[p] = 0 /\ poll_probes[p] = 0
        /\ exe_checks[p] = 1 /\ ~exists[p] =>
              /\ ret[StageOf(p)] = "False"
              /\ launches[p] = 0 /\ sleeps[p] = 0 /\ poll_probes[p] = 0
    /\ alertmanager_process = "Popen" <=> launches["alertmanager"] = 1
    /\ prometheus_process = "Popen" <=> launches["prometheus"] = 1

\* The alert router was launched and became ready; the metrics engine was
\* unreachable and its executable was missing.
C15_Witness ==
    /\ launches["alertmanager"] = 1
    /\ ret["start_alertmanager"] = "True"
    /\ init_probe["prometheus"] = "False"
    /\ exe_checks["prometheus"] = 1
    /\ ~exists["prometheus"]
    /\ ret["start_prometheus"] = "False"

\* C16 - service start policy: the start command is issued only after a
\* query that did not report RUNNING, and at most once; when it is refused
\* or fails, the exporter stage has failed, nothing was retried, no later
\* stage has acted and the program has ended.
C16_ServiceStartPolicy ==
    /\ service_queries <= 1
    /\ start_commands <= 1
    /\ start_commands = 1 => service_queries = 1 /\ sc_query = "not RUNNING"
    /\ sc_start = "refused" =>
          /\ start_commands = 1
          /\ ret["start_windows_exporter"] = "False"
          /\ ret["start_all_services"] = "False"
          /\ NoAction("alertmanager") /\ NoAction("prometheus") /\ NoVerify
          /\ pc = "exit"

\* The service was not running and the start command was refused.
C16_Witness ==
    /\ sc_query = "not RUNNING"
    /\ sc_start = "refused"
    /\ start_commands = 1
    /\ pc = "exit"

\* C17 - the claim as stated: once get_system_metrics has returned, each of
\* the three metrics has an entry, a value or "Unable to fetch".
C17_SnapshotComplete ==
    pc \in ReportingSteps => printed = Len(queries)

\* C18 - the claim as stated: the alert list is fetched from the alert
\* router's root URL.
C18_AlertSource ==
    alert_calls >= 1 => alert_source = alertmanager_url

\* C18 as amended: every alert fetch goes to the metrics engine's root URL
\* (prometheus_url), never to the alert router's.
C18_AlertsFromMetricsEngine ==
    alert_source = IF alert_calls = 0 THEN "none" ELSE prometheus_url

\* An alert list was fetched and shown, from the metrics engine.
C18_Witness ==
    /\ alert_calls >= 1
    /\ alerts = "shown"
    /\ alert_source = prometheus_url

\* How far main has got through start_all_services: each step before its
\* return has a position, and the return, or any way out of it, is the end.
StartupEnd == 13 + 2 * (alertmanager_max_retries + prometheus_max_retries)

StartupPosition ==
    LET A == 2 * alertmanager_max_retries
        P == 2 * prometheus_max_retries
    IN
    CASE pc = "main"                -> 0
      [] pc = "exporter_query"      -> 1
      [] pc = "exporter_start"      -> 2
      [] pc = "exporter_sleep"      -> 3
      [] pc = "alertmanager_probe"  -> 4
      [] pc = "alertmanager_exists" -> 5
      [] pc = "alertmanager_Popen"  -> 6
      [] pc = "alertmanager_sleep"  -> 7 + 2 * i
      [] pc = "alertmanager_poll"   -> 8 + 2 * i
      [] pc = "prometheus_probe"    -> 7 + A
      [] pc = "prometheus_exists"   -> 8 + A
      [] pc = "prometheus_Popen"    -> 9 + A
      [] pc = "prometheus_sleep"    -> 10 + A + 2 * i
      [] pc = "prometheus_poll"     -> 11 + A + 2 * i
      [] pc = "verify_services"     ->
            10 + A + P + Cardinality({sv \in Range(services) : verify_probe[sv] # "none"})
      [] OTHER                      -> StartupEnd

C20_InterruptNeverLost ==
    absorbed => (pc = "KeyboardInterrupt" \/ stop_calls >= 1)

====
